---- MODULE Spec2Model ----
(***************************************************************************)
(* Model of cenozavr/scrapper.py: a Selenium scraper that creates a        *)
(* browser session, selects a delivery address, walks the configured       *)
(* categories page by page collecting product records, and writes them to  *)
(* products.csv.  Every top-level function is decorated with               *)
(* handle_exceptions.                                                      *)
(***************************************************************************)
EXTENDS Integers, Sequences, FiniteSets, TLC

(***************************************************************************)
(* Bounds of the model (not program constants).                            *)
(***************************************************************************)
MaxCards == 2       \* product cards the site shows on one page: 1..MaxCards
MaxTextLen == 5     \* length of the price texts and script contents tried
NumTargets == 3     \* distinct locator target strings tried on find_element

(***************************************************************************)
(* Program constants.                                                      *)
(***************************************************************************)
URL_MAIN == "https://www.okeydostavka.ru"
ADDRESS == "Moskva, Malaya Bronnaya ulitsa, 32"      \* transliterated
CATEGORIES == <<"Tovary so skidkami", "Bytovaya khimiya">>   \* transliterated
pages == 2          \* default of parse_products' "pages" parameter

(***************************************************************************)
(* Python values.                                                          *)
(***************************************************************************)
None == "None"
Driver == "driver"          \* the uc.Chrome handle
Elem == "element"           \* a live WebElement
NoneList == [none |-> TRUE, list |-> <<>>]      \* None where a list is expected
SomeList(l) == [none |-> FALSE, list |-> l]

(***************************************************************************)
(* Exception classes: those imported from selenium.common.exceptions and   *)
(* the builtins the code names or raises, with their base class.           *)
(***************************************************************************)
Parent(c) ==
    CASE c = "NoSuchElementException" -> "WebDriverException"
      [] c = "TimeoutException" -> "WebDriverException"
      [] c = "StaleElementReferenceException" -> "WebDriverException"
      [] c = "SessionNotCreatedException" -> "WebDriverException"
      [] c = "InvalidElementStateException" -> "WebDriverException"
      [] c = "ElementNotInteractableException" -> "InvalidElementStateException"
      [] c = "ElementClickInterceptedException" -> "WebDriverException"
      [] c = "WebDriverException" -> "Exception"
      [] c = "TypeError" -> "Exception"
      [] c = "AttributeError" -> "Exception"
      [] c = "IndexError" -> "LookupError"
      [] c = "LookupError" -> "Exception"
      [] c = "ValueError" -> "Exception"
      [] OTHER -> "BaseException"

RECURSIVE IsInstance(_, _)
IsInstance(e, cls) ==
    IF e = cls THEN TRUE
    ELSE IF e = "BaseException" THEN FALSE
    ELSE IsInstance(Parent(e), cls)

\* The exception kinds a call into the browser or the interpreter can raise.
Faults ==
    { "NoSuchElementException", "TimeoutException",
      "StaleElementReferenceException", "SessionNotCreatedException",
      "InvalidElementStateException", "ElementNotInteractableException",
      "ElementClickInterceptedException", "WebDriverException",
      "TypeError", "AttributeError", "IndexError", "ValueError" }

(***************************************************************************)
(* Outcome of evaluating a call: a returned value or a raised exception.   *)
(***************************************************************************)
Ret(v) == [tag |-> "ret", val |-> v, exc |-> "none"]
Raise(e) == [tag |-> "raise", val |-> None, exc |-> e]
Outcomes(v) == {Ret(v)} \cup {Raise(e) : e \in Faults}

(***************************************************************************)
(* handle_exceptions.wrapper: the except clauses in source order.  Every   *)
(* clause logs one error entry; only the last one re-raises.               *)
(***************************************************************************)
\* Variant of ExceptClauses in which the TypeError clause is missing.
ExceptClausesNoTypeError ==
    << [cls |-> "NoSuchElementException", reraise |-> FALSE],
       [cls |-> "TimeoutException", reraise |-> FALSE],
       [cls |-> "StaleElementReferenceException", reraise |-> FALSE],
       [cls |-> "SessionNotCreatedException", reraise |-> FALSE],
       [cls |-> "InvalidElementStateException", reraise |-> FALSE],
       [cls |-> "WebDriverException", reraise |-> FALSE],
       [cls |-> "AttributeError", reraise |-> FALSE],
       [cls |-> "Exception", reraise |-> TRUE] >>

\* Variant of ExceptClauses in which the AttributeError clause is missing.
ExceptClausesNoAttributeError ==
    << [cls |-> "NoSuchElementException", reraise |-> FALSE],
       [cls |-> "TimeoutException", reraise |-> FALSE],
       [cls |-> "StaleElementReferenceException", reraise |-> FALSE],
       [cls |-> "SessionNotCreatedException", reraise |-> FALSE],
       [cls |-> "InvalidElementStateException", reraise |-> FALSE],
       [cls |-> "WebDriverException", reraise |-> FALSE],
       [cls |-> "TypeError", reraise |-> FALSE],
       [cls |-> "Exception", reraise |-> TRUE] >>

ExceptClauses ==
    << [cls |-> "NoSuchElementException", reraise |-> FALSE],
       [cls |-> "TimeoutException", reraise |-> FALSE],
       [cls |-> "StaleElementReferenceException", reraise |-> FALSE],
       [cls |-> "SessionNotCreatedException", reraise |-> FALSE],
       [cls |-> "InvalidElementStateException", reraise |-> FALSE],
       [cls |-> "WebDriverException", reraise |-> FALSE],
       [cls |-> "TypeError", reraise |-> FALSE],
       [cls |-> "AttributeError", reraise |-> FALSE],
       [cls |-> "Exception", reraise |-> TRUE] >>

\* Index of the first clause that matches e, 0 when none does.
RECURSIVE MatchFrom(_, _, _)
MatchFrom(clauses, e, i) ==
    IF i > Len(clauses) THEN 0
    ELSE IF IsInstance(e, clauses[i].cls) THEN i
    ELSE MatchFrom(clauses, e, i + 1)

\* wrapper(out): what the decorated call yields when the function's body
\* yields out; errs is the number of error entries the wrapper logs.
wrapper(out) ==
    IF out.tag = "ret" THEN [out |-> out, errs |-> 0]
    ELSE LET i == MatchFrom(ExceptClauses, out.exc, 1) IN
         IF i = 0 THEN [out |-> out, errs |-> 0]
         ELSE IF ExceptClauses[i].reraise THEN [out |-> out, errs |-> 1]
         ELSE [out |-> Ret(None), errs |-> 1]

(***************************************************************************)
(* find_element: the match statement over the method tag.  waitOut is the  *)
(* outcome of wait.until(...) for a recognised tag.                        *)
(***************************************************************************)
MethodTags == {"xpath", "class_name", "css_selector", "id", "tag_name", "delivery"}

\* Variant of FindElementBody whose match statement lacks the 'delivery' case.
FindElementBodyNoDelivery(method, target, waitOut) ==
    IF method \in {"xpath", "class_name", "css_selector", "id", "tag_name"}
    THEN waitOut
    ELSE Raise("AttributeError")

FindElementBody(method, target, waitOut) ==
    IF method \in MethodTags THEN waitOut
    ELSE Raise("AttributeError")

find_element(method, target, waitOut) == wrapper(FindElementBody(method, target, waitOut))

\* click_element: ActionChains(driver).move_to_element(element).click().perform();
\* move_to_element of None raises AttributeError.
ClickElementBody(element, performOut) ==
    IF element = None THEN Raise("AttributeError") ELSE performOut

click_element(element, performOut) == wrapper(ClickElementBody(element, performOut))

\* close_driver: driver.close(); driver.quit().
close_driver(driver, closeOut) ==
    wrapper(IF driver = None THEN Raise("AttributeError") ELSE closeOut)

(***************************************************************************)
(* The site: what the browser shows.  A card is identified by the place    *)
(* it is shown at: loc (0 = the front page, c = category c), the page of   *)
(* the listing and its position on the page.                               *)
(***************************************************************************)
\* Texts are sequences of symbols.  In a price text " " is a whitespace
\* character, "d" a character of the amount and "$" the currency sign.  In a
\* script content "P" stands for the ten characters  category:  up to and
\* including the blank (none of them a double quote), "q" for a double quote,
\* "a" for any other character and "n" for the text  no category .
SiteCard(l, p, k) ==
    [ text |-> <<l, p, k>>,
      href |-> "href",
      dataSrc |-> "/data-src",
      script |-> IF (l + p + k) % 2 = 0 THEN <<"P", "q", "a", "q">> ELSE <<"a", "q">>,
      fullPrice |-> <<"d", "d", " ", "$">>,
      price |-> <<" ", "d", " ", "$", " ">> ]

SiteCards(l, p, n) == [k \in 1..n |-> SiteCard(l, p, k)]

(***************************************************************************)
(* Lines 287-288: text.strip()[:-2].                                       *)
(***************************************************************************)
IsSpace(ch) == ch = " "

RECURSIVE LStrip(_)
LStrip(t) == IF t = <<>> \/ ~IsSpace(Head(t)) THEN t ELSE LStrip(Tail(t))

RECURSIVE RStrip(_)
RStrip(t) ==
    IF t = <<>> \/ ~IsSpace(t[Len(t)]) THEN t ELSE RStrip(SubSeq(t, 1, Len(t) - 1))

\* str.strip()
strip(t) == RStrip(LStrip(t))

\* Variant of SliceOffLast that removes a single character.
SliceOffLastOne(t, n) == SubSeq(t, 1, Len(t) - 1)

\* t[:-n] for n > 0
SliceOffLast(t, n) == SubSeq(t, 1, Len(t) - n)

\* The length of the currency suffix removed at lines 287-288.
SuffixLen == 2

NormalizePrice(text) == SliceOffLast(strip(text), SuffixLen)

(***************************************************************************)
(* Lines 276-282: re.search(r'category: "([^"]+)"', js_code), group(1),    *)
(* and the local except AttributeError.                                    *)
(***************************************************************************)
\* Index of the first double quote of t at or after k, Len(t) + 1 if none.
RECURSIVE NextQuote(_, _)
NextQuote(t, k) ==
    IF k > Len(t) THEN Len(t) + 1
    ELSE IF t[k] = "q" THEN k
    ELSE NextQuote(t, k + 1)

\* Variant of SearchFrom that only tries a match at the start of the text
\* (re.match in place of re.search).
RECURSIVE SearchFromStartOnly(_, _)
SearchFromStartOnly(t, i) ==
    IF i > 1 \/ Len(t) < 4 THEN [found |-> FALSE, group |-> <<>>]
    ELSE IF t[1] = "P" /\ t[2] = "q" /\ NextQuote(t, 3) > 3 /\ NextQuote(t, 3) <= Len(t)
         THEN [found |-> TRUE, group |-> SubSeq(t, 3, NextQuote(t, 3) - 1)]
         ELSE [found |-> FALSE, group |-> <<>>]

\* re.search from position i: the leftmost position where the literal, one
\* or more characters other than a double quote, and a double quote follow.
RECURSIVE SearchFrom(_, _)
SearchFrom(t, i) ==
    IF i > Len(t) THEN [found |-> FALSE, group |-> <<>>]
    ELSE IF /\ i + 1 <= Len(t)
            /\ t[i] = "P"
            /\ t[i + 1] = "q"
            /\ NextQuote(t, i + 2) > i + 2
            /\ NextQuote(t, i + 2) <= Len(t)
         THEN [found |-> TRUE, group |-> SubSeq(t, i + 2, NextQuote(t, i + 2) - 1)]
         ELSE SearchFrom(t, i + 1)

NoCategory == <<"n">>       \* the text 'no category'

\* Lines 277-281: the field appended for the category.
CategoryOf(js_code) ==
    LET category_match == SearchFrom(js_code, 1) IN
    IF category_match.found THEN category_match.group ELSE NoCategory

\* Line 282: one warning when the pattern does not match.
Warnings(js_code) == IF SearchFrom(js_code, 1).found THEN 0 ELSE 1

\* Variant of CardRecord without the append of the image URL (line 271).
CardRecordNoImage(prod) ==
    << prod.text, prod.href, CategoryOf(prod.script),
       NormalizePrice(prod.fullPrice), NormalizePrice(prod.price) >>

\* Lines 266-288: the list lst of a card after all six appends.
CardRecord(prod) ==
    << prod.text, prod.href, <<URL_MAIN, prod.dataSrc>>,
       CategoryOf(prod.script), NormalizePrice(prod.fullPrice),
       NormalizePrice(prod.price) >>

NumFields == 6

(***************************************************************************)
(* State.                                                                  *)
(***************************************************************************)
VARIABLES
    pc,             \* position of the module-level run
    browser,        \* module variable browser: Driver or None
    sessionOpen,    \* the browser process exists and was not closed
    loc,            \* what the browser shows: -1 blank, 0 front page, c category
    sitePage,       \* page of the listing the browser shows
    uiEvents,       \* UI events performed on the address form, in order
    element,        \* result of the last find_element
    catIdx,         \* parse_products: index of cat in categories
    pageIdx,        \* parse_products: pass of "for _ in range(pages)", from 1
    cards,          \* parse_products: cards of the current pass
    cardIdx,        \* parse_products: index of prod in cards
    lst,            \* parse_products: the record under construction
    products_main,  \* parse_products: the ResultSet
    prods,          \* module variable prods
    file,           \* products.csv: [written, rows]
    nErr,           \* error entries in the log
    nWarn,          \* warning entries in the log
    exc,            \* exception in flight, "none" when there is none
    raisedAt,       \* pc at which the exception in flight was raised
    closeCount,     \* history: calls of close_driver
    navAttempts,    \* history: calls of go_next_page
    cardsSeen,      \* history: cards returned by the card waits
    origins,        \* history: <<catIdx, pageIdx, cardIdx>> of each append
    faultSeen,      \* history: an exception other than the next-page
                    \*   control's ElementNotInteractableException was raised
    uMethod, uLoc, uWait, uResult, uErrs,  \* a single call of find_element
    tKind, tIn, tOut    \* a single text handled by the card body: its kind
                        \*   ("price" or "script"), the text, what was made of it

runVars ==
    << pc, browser, sessionOpen, loc, sitePage, uiEvents, element, catIdx,
       pageIdx, cards, cardIdx, lst, products_main, prods, file, nErr, nWarn,
       exc, raisedAt, closeCount, navAttempts, cardsSeen, origins, faultSeen >>
unitVars == << uMethod, uLoc, uWait, uResult, uErrs, tKind, tIn, tOut >>
vars == << runVars, unitVars >>

Header ==
    << "Naimenovanie", "Url_tovara", "Url_izobrazheniya", "Kategoriya",
       "Polnaya tsena", "Tsena soskidkoy" >>

InitRun ==
    /\ pc = "create"
    /\ browser = None
    /\ sessionOpen = FALSE
    /\ loc = -1
    /\ sitePage = 1
    /\ uiEvents = <<>>
    /\ element = None
    /\ catIdx = 0
    /\ pageIdx = 0
    /\ cards = <<>>
    /\ cardIdx = 0
    /\ lst = <<>>
    /\ products_main = <<>>
    /\ prods = NoneList
    /\ file = [written |-> FALSE, rows |-> <<>>]
    /\ nErr = 0
    /\ nWarn = 0
    /\ exc = "none"
    /\ raisedAt = "none"
    /\ closeCount = 0
    /\ navAttempts = 0
    /\ cardsSeen = 0
    /\ origins = <<>>
    /\ faultSeen = FALSE

NoText == [done |-> FALSE, text |-> <<>>, rec |-> <<>>, main |-> <<>>, warn |-> 0]

InitText ==
    /\ tKind = "price"
    /\ tIn = <<>>
    /\ tOut = NoText

InitUnit ==
    /\ uMethod = "xpath"
    /\ uLoc = 1
    /\ uWait = Ret(Elem)
    /\ uResult = Ret(None)
    /\ uErrs = 0
    /\ InitText

Init == InitRun /\ InitUnit

\* A body statement raised e at the current pc: the function's wrapper takes over.
RaiseTo(handler, e) ==
    /\ exc' = e
    /\ raisedAt' = pc
    /\ pc' = handler
    /\ faultSeen' = TRUE

NoRaise == UNCHANGED << exc, raisedAt >>

(***************************************************************************)
(* Line 318: browser = create_webdriver(user_agent=USER_AGENT).            *)
(***************************************************************************)
CreateWebdriver ==
    /\ pc = "create"
    /\ \E body \in Outcomes(Driver) :
         LET r == wrapper(body) IN
         /\ nErr' = nErr + r.errs
         /\ faultSeen' = (faultSeen \/ body.tag = "raise")
         /\ IF r.out.tag = "raise"
            THEN /\ pc' = "crashed"
                 /\ exc' = r.out.exc
                 /\ raisedAt' = pc
                 /\ UNCHANGED << browser, sessionOpen >>
            ELSE /\ pc' = "sel_get"
                 /\ browser' = r.out.val
                 /\ sessionOpen' = (r.out.val = Driver)
                 /\ NoRaise
    /\ UNCHANGED << loc, sitePage, uiEvents, element, catIdx, pageIdx, cards,
                    cardIdx, lst, products_main, prods, file, nWarn,
                    closeCount, navAttempts, cardsSeen, origins, unitVars >>

(***************************************************************************)
(* select_delivery_address(driver, delivery_address), lines 207-236, with  *)
(* driver = browser.  A statement of the body that raises hands the        *)
(* exception to the function's wrapper (pc "sel_raise").                   *)
(***************************************************************************)
parseVars == << catIdx, pageIdx, cards, cardIdx, lst, products_main, prods, file,
                nWarn, closeCount, navAttempts, cardsSeen, origins >>

\* driver.<method>(...) on the session: AttributeError when driver is None.
OnDriver(out) == IF browser = None THEN Raise("AttributeError") ELSE out

\* Lines 207-208: driver.get(URL_MAIN).
SelGet ==
    /\ pc = "sel_get"
    /\ \E out \in Outcomes(None) :
         LET body == OnDriver(out) IN
         IF body.tag = "raise"
         THEN RaiseTo("sel_raise", body.exc) /\ UNCHANGED << loc, sitePage >>
         ELSE /\ pc' = "sel_consent_find"
              /\ loc' = 0
              /\ sitePage' = 1
              /\ NoRaise
              /\ UNCHANGED faultSeen
    /\ UNCHANGED << browser, sessionOpen, uiEvents, element, nErr, parseVars, unitVars >>

\* A call e = find_element(driver, method, ...) at pc from, continuing at to.
FindStep(from, to, method, target, handler) ==
    /\ pc = from
    /\ \E out \in Outcomes(Elem) :
         LET body == FindElementBody(method, target, out)
             r == find_element(method, target, out) IN
         /\ nErr' = nErr + r.errs
         /\ IF r.out.tag = "raise"
            THEN RaiseTo(handler, r.out.exc) /\ UNCHANGED element
            ELSE /\ pc' = to
                 /\ element' = r.out.val
                 /\ faultSeen' = (faultSeen \/ body.tag = "raise")
                 /\ NoRaise

\* Lines 209-210: find_element(driver, 'xpath', "//button[contains(text(),...)]").
SelConsentFind ==
    /\ FindStep("sel_consent_find", "sel_consent_click", "xpath", 1, "sel_raise")
    /\ UNCHANGED << browser, sessionOpen, loc, sitePage, uiEvents, parseVars, unitVars >>

\* Lines 209-211: click_element(driver, <the element found>).
SelConsentClick ==
    /\ pc = "sel_consent_click"
    /\ \E out \in Outcomes(None) :
         LET body == ClickElementBody(element, out)
             r == click_element(element, out) IN
         /\ nErr' = nErr + r.errs
         /\ IF r.out.tag = "raise"
            THEN RaiseTo("sel_raise", r.out.exc) /\ UNCHANGED uiEvents
            ELSE /\ pc' = "sel_delivery"
                 /\ uiEvents' = IF body.tag = "ret" THEN Append(uiEvents, "consent")
                                 ELSE uiEvents
                 /\ faultSeen' = (faultSeen \/ body.tag = "raise")
                 /\ NoRaise
    /\ UNCHANGED << browser, sessionOpen, loc, sitePage, element, parseVars, unitVars >>

\* A run of undecorated statements of select_delivery_address that either
\* all succeed, performing event ev, or raise.
SelRaw(from, to, ev) ==
    /\ pc = from
    /\ \E out \in Outcomes(None) :
         IF out.tag = "raise"
         THEN RaiseTo("sel_raise", out.exc) /\ UNCHANGED uiEvents
         ELSE /\ pc' = to
              /\ uiEvents' = Append(uiEvents, ev)
              /\ NoRaise
              /\ UNCHANGED faultSeen
    /\ UNCHANGED << browser, sessionOpen, loc, sitePage, element, nErr, parseVars, unitVars >>

\* Lines 213-219: wait for the delivery slot, hover, sleep, click.
SelDelivery == SelRaw("sel_delivery", "sel_addr_find", "delivery")

\* Line 221: address = find_element(driver, 'css_selector', '#addressSelectionQuery').
SelAddrFind ==
    /\ FindStep("sel_addr_find", "sel_addr_type", "css_selector", 2, "sel_raise")
    /\ UNCHANGED << browser, sessionOpen, loc, sitePage, uiEvents, parseVars, unitVars >>

\* Variant of SelSendKeys that skips the call when address is None.
SelSendKeysIfFound(from, to, ev) ==
    /\ pc = from
    /\ \E out \in Outcomes(None) :
         IF element # None /\ out.tag = "raise"
         THEN RaiseTo("sel_raise", out.exc) /\ UNCHANGED uiEvents
         ELSE /\ pc' = to
              /\ uiEvents' = IF element = None THEN uiEvents ELSE Append(uiEvents, ev)
              /\ NoRaise
              /\ UNCHANGED faultSeen
    /\ UNCHANGED << browser, sessionOpen, loc, sitePage, element, nErr, parseVars, unitVars >>

\* address.send_keys(keys): AttributeError when address is None.
SelSendKeys(from, to, ev) ==
    /\ pc = from
    /\ \E out \in Outcomes(None) :
         LET body == IF element = None THEN Raise("AttributeError") ELSE out IN
         IF body.tag = "raise"
         THEN RaiseTo("sel_raise", body.exc) /\ UNCHANGED uiEvents
         ELSE /\ pc' = to
              /\ uiEvents' = Append(uiEvents, ev)
              /\ NoRaise
              /\ UNCHANGED faultSeen
    /\ UNCHANGED << browser, sessionOpen, loc, sitePage, element, nErr, parseVars, unitVars >>

\* Lines 222-224: address.send_keys(delivery_address).
SelAddrType == SelSendKeys("sel_addr_type", "sel_enter1", "typed")
\* Line 226: address.send_keys(Keys.ENTER).
SelEnter1 == SelSendKeys("sel_enter1", "sel_enter2", "enter")
\* Lines 227-228: address.send_keys(Keys.ENTER).
SelEnter2 == SelSendKeys("sel_enter2", "sel_save", "enter")
\* Lines 230-236: wait for the save button, hover, click, sleep; return driver.
SelSave == SelRaw("sel_save", "pp_enter", "save")

\* Lines 72-94 around select_delivery_address, line 321: the value the
\* wrapper returns is bound to browser; a re-raised exception ends the run.
SelectDeliveryAddressWrapper ==
    /\ pc = "sel_raise"
    /\ LET r == wrapper(Raise(exc)) IN
       /\ nErr' = nErr + r.errs
       /\ IF r.out.tag = "raise"
          THEN /\ pc' = "crashed"
               /\ UNCHANGED << browser, exc >>
          ELSE /\ pc' = "pp_enter"
               /\ browser' = r.out.val
               /\ exc' = "none"
    /\ UNCHANGED << sessionOpen, loc, sitePage, uiEvents, element, raisedAt,
                    faultSeen, parseVars, unitVars >>

(***************************************************************************)
(* parse_products(driver, categories, pages), lines 251-296, with          *)
(* driver = browser and categories = CATEGORIES (line 324).                *)
(***************************************************************************)
selVars == << browser, uiEvents >>

\* "for cat in categories": the body for category c, or the code after the loop.
CatLoop(c) == IF c <= Len(CATEGORIES) THEN "pp_get" ELSE "pp_close"

\* Variant of InRange with one pass fewer.
InRangeShort(p) == p < pages

\* "for _ in range(pages)": there is a pass number p (counted from 1).
InRange(p) == p <= pages

\* "for _ in range(pages)": pass p of the current category, or the next category.
PageLoopPc(p, c) == IF InRange(p) THEN "pp_wait" ELSE CatLoop(c + 1)
PageLoopCat(p, c) == IF InRange(p) THEN c ELSE c + 1

\* Line 251: products_main = [].
PPEnter ==
    /\ pc = "pp_enter"
    /\ products_main' = <<>>
    /\ catIdx' = 1
    /\ pc' = CatLoop(1)
    /\ UNCHANGED << selVars, sessionOpen, loc, sitePage, element, pageIdx, cards,
                    cardIdx, lst, prods, file, nErr, nWarn, exc, raisedAt,
                    closeCount, navAttempts, cardsSeen, origins, faultSeen, unitVars >>

\* Line 253: driver.get(URL_MAIN).
PPGet ==
    /\ pc = "pp_get"
    /\ \E out \in Outcomes(None) :
         LET body == OnDriver(out) IN
         IF body.tag = "raise"
         THEN RaiseTo("pp_raise", body.exc) /\ UNCHANGED << loc, sitePage >>
         ELSE /\ pc' = "pp_find"
              /\ loc' = 0
              /\ sitePage' = 1
              /\ NoRaise
              /\ UNCHANGED faultSeen
    /\ UNCHANGED << selVars, sessionOpen, element, nErr, parseVars, unitVars >>

\* Lines 254-255: find_element(driver, 'xpath', xpass_category).
PPFind ==
    /\ FindStep("pp_find", "pp_click", "xpath", 3, "pp_raise")
    /\ UNCHANGED << selVars, sessionOpen, loc, sitePage, parseVars, unitVars >>

\* Lines 255-257: click_element(driver, <the element found>); a click that
\* is performed opens the listing of category catIdx at its first page.
PPClick ==
    /\ pc = "pp_click"
    /\ \E out \in Outcomes(None) :
         LET body == ClickElementBody(element, out)
             r == click_element(element, out) IN
         /\ nErr' = nErr + r.errs
         /\ IF r.out.tag = "raise"
            THEN /\ RaiseTo("pp_raise", r.out.exc)
                 /\ UNCHANGED << loc, pageIdx, catIdx >>
            ELSE /\ pc' = PageLoopPc(1, catIdx)
                 /\ catIdx' = PageLoopCat(1, catIdx)
                 /\ pageIdx' = 1
                 /\ loc' = IF body.tag = "ret" THEN catIdx ELSE loc
                 /\ faultSeen' = (faultSeen \/ body.tag = "raise")
                 /\ NoRaise
    /\ UNCHANGED << selVars, sessionOpen, sitePage, element, cards, cardIdx, lst,
                    products_main, prods, file, nWarn, closeCount, navAttempts,
                    cardsSeen, origins, unitVars >>

\* Lines 259-264: cards = wait.until(presence_of_all_elements_located(...)).
PPWait ==
    /\ pc = "pp_wait"
    /\ \/ \E n \in 1..MaxCards :
            /\ cards' = SiteCards(loc, sitePage, n)
            /\ cardIdx' = 1
            /\ cardsSeen' = cardsSeen + n
            /\ pc' = "pp_card"
            /\ NoRaise
            /\ UNCHANGED faultSeen
       \/ \E e \in Faults :
            /\ RaiseTo("pp_raise", e)
            /\ UNCHANGED << cards, cardIdx, cardsSeen >>
    /\ UNCHANGED << selVars, sessionOpen, loc, sitePage, element, catIdx, pageIdx,
                    lst, products_main, prods, file, nErr, nWarn, closeCount,
                    navAttempts, origins, unitVars >>

\* Variant of AppendRecord that inserts at the front.
AppendRecordFront(main, rec) == <<rec>> \o main

\* Line 289: products_main.append(lst).
AppendRecord(main, rec) == Append(main, rec)

\* Lines 267-288: the exceptions the statements of the card body raise once
\* done fields are in lst: a lookup on the card fails or the card went stale,
\* an attribute read returns None (URL_MAIN + None, re.search(.., None),
\* None.strip()), or the price container has fewer than two spans.
ExtractFaults(done) ==
    CASE done = 0 -> {"NoSuchElementException", "StaleElementReferenceException"}
      [] done = 1 -> {"StaleElementReferenceException", "WebDriverException"}
      [] done = 2 -> {"NoSuchElementException", "StaleElementReferenceException",
                      "TypeError"}
      [] done = 3 -> {"NoSuchElementException", "StaleElementReferenceException",
                      "WebDriverException", "TypeError"}
      [] done = 4 -> {"NoSuchElementException", "StaleElementReferenceException",
                      "IndexError", "AttributeError"}
      [] done = 5 -> {"AttributeError"}

\* Lines 265-290: the body of "for prod in cards" for prod = cards[cardIdx].
\* Either every statement succeeds and the record is appended, or a statement
\* raises after done fields were put into lst.
PPCard ==
    /\ pc = "pp_card"
    /\ LET prod == cards[cardIdx]
           rec == CardRecord(prod) IN
       \/ /\ lst' = rec
          /\ products_main' = AppendRecord(products_main, rec)
          /\ origins' = Append(origins, <<catIdx, pageIdx, cardIdx>>)
          /\ nWarn' = nWarn + Warnings(prod.script)
          /\ cardIdx' = cardIdx + 1
          /\ pc' = IF cardIdx + 1 <= Len(cards) THEN "pp_card" ELSE "gnp_try"
          /\ NoRaise
          /\ UNCHANGED faultSeen
       \/ \E done \in 0..(NumFields - 1) : \E e \in ExtractFaults(done) :
          /\ lst' = SubSeq(rec, 1, done)
          /\ nWarn' = nWarn + (IF done >= 4 THEN Warnings(prod.script) ELSE 0)
          /\ RaiseTo("pp_raise", e)
          /\ UNCHANGED << products_main, origins, cardIdx >>
    /\ UNCHANGED << selVars, sessionOpen, loc, sitePage, element, catIdx, pageIdx,
                    cards, prods, file, nErr, closeCount, navAttempts, cardsSeen,
                    unitVars >>

(***************************************************************************)
(* go_next_page(driver), lines 109-116, called at line 291.                *)
(***************************************************************************)
\* Line 113: the only except clause of the try statement.
GoNextPageCatches(e) == IsInstance(e, "ElementNotInteractableException")

\* Lines 109-114: find the controls, then try to click the first one.
\* find_elements is outside the try statement.  An exception of the try
\* block that line 113 does not catch is in flight when "finally" runs.
GoNextPageTry ==
    /\ pc = "gnp_try"
    /\ navAttempts' = navAttempts + 1
    /\ \/ \E e \in Faults :                       \* line 109 raises
            /\ RaiseTo("pp_raise", e)
            /\ UNCHANGED sitePage
       \/ /\ pc' = "gnp_finally"                   \* the click is performed
          /\ sitePage' = sitePage + 1
          /\ NoRaise
          /\ UNCHANGED faultSeen
       \/ \E e \in Faults :                       \* next[0].click() raises
            /\ pc' = "gnp_finally"
            /\ UNCHANGED sitePage
            /\ IF GoNextPageCatches(e)
               THEN NoRaise /\ UNCHANGED faultSeen
               ELSE /\ exc' = e
                    /\ raisedAt' = pc
                    /\ faultSeen' = TRUE
    /\ UNCHANGED << selVars, sessionOpen, loc, element, catIdx, pageIdx, cards,
                    cardIdx, lst, products_main, prods, file, nErr, nWarn,
                    closeCount, cardsSeen, origins, unitVars >>

\* Lines 115-116 and 291-292: "return driver" inside "finally" discards the
\* exception in flight; the page loop goes on.
GoNextPageFinally ==
    /\ pc = "gnp_finally"
    /\ exc' = "none"
    /\ pageIdx' = pageIdx + 1
    /\ pc' = PageLoopPc(pageIdx + 1, catIdx)
    /\ catIdx' = PageLoopCat(pageIdx + 1, catIdx)
    /\ UNCHANGED << selVars, sessionOpen, loc, sitePage, element, cards, cardIdx,
                    lst, products_main, prods, file, nErr, nWarn, raisedAt,
                    closeCount, navAttempts, cardsSeen, origins, faultSeen,
                    unitVars >>

\* Lines 293-296: close_driver(driver); return products_main (line 324
\* binds it to prods).
PPClose ==
    /\ pc = "pp_close"
    /\ closeCount' = closeCount + 1
    /\ \E out \in Outcomes(None) :
         LET r == close_driver(browser, out) IN
         /\ nErr' = nErr + r.errs
         /\ IF r.out.tag = "raise"
            THEN /\ RaiseTo("pp_raise", r.out.exc)
                 /\ UNCHANGED << sessionOpen, prods >>
            ELSE /\ pc' = "save"
                 /\ sessionOpen' = IF r.errs = 0 THEN FALSE ELSE sessionOpen
                 /\ prods' = SomeList(products_main)
                 /\ faultSeen' = (faultSeen \/ r.errs > 0)
                 /\ NoRaise
    /\ UNCHANGED << selVars, loc, sitePage, element, catIdx, pageIdx, cards,
                    cardIdx, lst, products_main, file, nWarn, navAttempts,
                    cardsSeen, origins, unitVars >>

\* Lines 72-94 around parse_products, line 324: the value the wrapper
\* returns is bound to prods; a re-raised exception ends the run.
ParseProductsWrapper ==
    /\ pc = "pp_raise"
    /\ LET r == wrapper(Raise(exc)) IN
       /\ nErr' = nErr + r.errs
       /\ IF r.out.tag = "raise"
          THEN /\ pc' = "crashed"
               /\ UNCHANGED << prods, exc >>
          ELSE /\ pc' = "save"
               /\ prods' = NoneList
               /\ exc' = "none"
    /\ UNCHANGED << selVars, sessionOpen, loc, sitePage, element, catIdx, pageIdx,
                    cards, cardIdx, lst, products_main, file, nWarn, raisedAt,
                    closeCount, navAttempts, cardsSeen, origins, faultSeen,
                    unitVars >>

(***************************************************************************)
(* save_to_csv(products), lines 306-314, called at line 327.               *)
(***************************************************************************)
\* Variant of SaveToCsvBody that writes no header row.
SaveToCsvBodyNoHeader(products) ==
    IF products.none
    THEN [rows |-> <<>>, out |-> Raise("TypeError")]
    ELSE [rows |-> products.list, out |-> Ret(None)]

\* Lines 307-314: the file is truncated, the header row written, then the
\* rows of products; iterating None raises TypeError after the header.
SaveToCsvBody(products) ==
    IF products.none
    THEN [rows |-> <<Header>>, out |-> Raise("TypeError")]
    ELSE [rows |-> <<Header>> \o products.list, out |-> Ret(None)]

SaveToCsv ==
    /\ pc = "save"
    /\ LET b == SaveToCsvBody(prods)
           r == wrapper(b.out) IN
       /\ file' = [written |-> TRUE, rows |-> b.rows]
       /\ nErr' = nErr + r.errs
       /\ faultSeen' = (faultSeen \/ b.out.tag = "raise")
       /\ IF r.out.tag = "raise"
          THEN /\ pc' = "crashed"
               /\ exc' = r.out.exc
               /\ raisedAt' = pc
          ELSE /\ pc' = "done"
               /\ NoRaise
    /\ UNCHANGED << selVars, sessionOpen, loc, sitePage, element, catIdx, pageIdx,
                    cards, cardIdx, lst, products_main, prods, nWarn, closeCount,
                    navAttempts, cardsSeen, origins, unitVars >>

(***************************************************************************)
(* The run of the module, lines 318-327.                                   *)
(***************************************************************************)
Next ==
    \/ CreateWebdriver
    \/ SelGet
    \/ SelConsentFind
    \/ SelConsentClick
    \/ SelDelivery
    \/ SelAddrFind
    \/ SelAddrType
    \/ SelEnter1
    \/ SelEnter2
    \/ SelSave
    \/ SelectDeliveryAddressWrapper
    \/ PPEnter
    \/ PPGet
    \/ PPFind
    \/ PPClick
    \/ PPWait
    \/ PPCard
    \/ GoNextPageTry
    \/ GoNextPageFinally
    \/ PPClose
    \/ ParseProductsWrapper
    \/ SaveToCsv

Spec == Init /\ [][Next]_vars

(***************************************************************************)
(* A single call find_element(driver, method, loc) with inputs drawn from  *)
(* bounded sets: any method tag, any target, any outcome of the wait.      *)
(***************************************************************************)
UnitMethods == MethodTags \cup {"name", "link_text"}
Pending == Ret("pending")

InitCall ==
    /\ InitRun
    /\ uMethod \in UnitMethods
    /\ uLoc \in 1..NumTargets
    /\ uWait \in Outcomes(Elem)
    /\ uResult = Pending
    /\ uErrs = 0
    /\ InitText

CallFindElement ==
    /\ uResult = Pending
    /\ LET r == find_element(uMethod, uLoc, uWait) IN
       /\ uResult' = r.out
       /\ uErrs' = r.errs
    /\ UNCHANGED << runVars, uMethod, uLoc, uWait, tKind, tIn, tOut >>

NextCall == CallFindElement

SpecCall == InitCall /\ [][NextCall]_vars

(***************************************************************************)
(* A single text handled by the body of the card loop, drawn from bounded  *)
(* sets: a price text normalised at lines 287-288, or a script content     *)
(* from which lines 272-289 make the category field of a card's record.    *)
(***************************************************************************)
Texts(alphabet) == UNION {[1..n -> alphabet] : n \in 0..MaxTextLen}
PriceChars == {" ", "d", "$"}
ScriptChars == {"P", "q", "a", "n"}

InitTexts ==
    /\ InitRun
    /\ uMethod = "xpath"
    /\ uLoc = 1
    /\ uWait = Ret(Elem)
    /\ uResult = Ret(None)
    /\ uErrs = 0
    /\ \/ tKind = "price" /\ tIn \in Texts(PriceChars)
       \/ tKind = "script" /\ tIn \in Texts(ScriptChars)
    /\ tOut = NoText

\* Lines 285-288: a price text is normalised.
ApplyNormalizePrice ==
    /\ tKind = "price"
    /\ ~tOut.done
    /\ tOut' = [NoText EXCEPT !.done = TRUE, !.text = NormalizePrice(tIn)]
    /\ UNCHANGED << runVars, uMethod, uLoc, uWait, uResult, uErrs, tKind, tIn >>

\* Lines 266-289 for a card whose script content is tIn: the record is
\* built and appended to an empty ResultSet.
ExtractCategory ==
    /\ tKind = "script"
    /\ ~tOut.done
    /\ LET prod == [SiteCard(1, 1, 1) EXCEPT !.script = tIn]
           rec == CardRecord(prod) IN
       tOut' = [done |-> TRUE, text |-> rec[4], rec |-> rec,
                main |-> AppendRecord(<<>>, rec), warn |-> Warnings(tIn)]
    /\ UNCHANGED << runVars, uMethod, uLoc, uWait, uResult, uErrs, tKind, tIn >>

NextTexts == ApplyNormalizePrice \/ ExtractCategory

SpecTexts == InitTexts /\ [][NextTexts]_vars

(***************************************************************************)
(* Properties.                                                             *)
(***************************************************************************)
\* The classes the spec calls transient: element not found, wait timeout,
\* stale reference, session not created, invalid element state, generic
\* driver fault, TypeError, AttributeError.
TransientClasses ==
    { "NoSuchElementException", "TimeoutException",
      "StaleElementReferenceException", "SessionNotCreatedException",
      "InvalidElementStateException", "WebDriverException",
      "TypeError", "AttributeError" }
IsTransient(e) == \E c \in TransientClasses : IsInstance(e, c)

\* parse_products has returned to the module level (normally, or with the
\* value its wrapper substitutes) after being given a live session.
ParseReturned == pc \in {"save", "done"} /\ browser = Driver

IsPrefixOf(s, t) == Len(s) <= Len(t) /\ SubSeq(t, 1, Len(s)) = s

\* Data rows of products.csv: everything after the header row.
DataRows == IF file.written /\ file.rows # <<>> THEN Tail(file.rows) ELSE <<>>

\* C1: whenever parse_products has returned, normally or after a transient
\* fault in a category click, a card wait, a card extraction or a pagination
\* aborted the extraction, close_driver was invoked exactly once.
C1_ClosedExactlyOnce ==
    (ParseReturned /\ raisedAt \in {"none", "pp_wait", "pp_card", "gnp_try"})
        => closeCount = 1

\* C2: when a transient fault is raised while extracting card 2 of a page,
\* the record of card 1 is in the ResultSet that parse_products returns and
\* the extraction of the cards after card 2 is still attempted (the card loop
\* runs to the end of the page).
C2_CardIsolation ==
    (ParseReturned /\ raisedAt = "pp_card" /\ cardIdx = 2)
        => /\ ~prods.none
           /\ IsPrefixOf(products_main, prods.list)
           /\ cardIdx > Len(cards)

\* C3: a call through the wrapper whose function raises a transient kind
\* returns None; one that raises any other kind propagates that same
\* exception after exactly one error entry was logged.
C3_WrapperContract ==
    LET body == FindElementBody(uMethod, uLoc, uWait) IN
    (uResult # Pending /\ body.tag = "raise")
        => IF IsTransient(body.exc)
           THEN uResult = Ret(None)
           ELSE uResult = Raise(body.exc) /\ uErrs = 1

\* C3 witness: an IndexError raised inside the wait came out of the call
\* with one error entry logged.
C3_Witness ==
    /\ uWait = Raise("IndexError")
    /\ uMethod \in MethodTags
    /\ uResult = Raise("IndexError")
    /\ uErrs = 1

\* C4: find_element called with a method tag outside the six recognised
\* ones raises to its caller, whatever the target.
C4_InvalidMethodRaises ==
    (uResult # Pending /\ uMethod \notin MethodTags) => uResult.tag = "raise"

\* C5: select_delivery_address, given a live session, returns that session
\* even when a transient fault occurred at one of its steps (consent click,
\* delivery slot, address lookup or typing, save button).
C5_SelectReturnsSession ==
    (pc = "pp_enter" /\ sessionOpen /\ raisedAt # "sel_get") => browser = Driver

\* C6: a transient fault raised by the wait for the product cards of one
\* category does not end the category loop: when parse_products returns,
\* every category was processed and the records gathered are returned.
C6_CategoryIsolation ==
    (ParseReturned /\ raisedAt = "pp_wait")
        => /\ catIdx > Len(CATEGORIES)
           /\ ~prods.none
           /\ prods.list = products_main

\* C7: in a finished run with no fault other than a next-page control that
\* is not interactable, the ResultSet holds one record per card seen,
\* go_next_page was called Len(CATEGORIES) * pages times, close_driver once,
\* and products.csv holds the header row plus one row per record.
C7_FaultFreeRun ==
    (pc = "done" /\ ~faultSeen)
        => /\ Len(products_main) = cardsSeen
           /\ \A i \in 1..Len(products_main) : Len(products_main[i]) = NumFields
           /\ navAttempts = Len(CATEGORIES) * pages
           /\ closeCount = 1
           /\ ~prods.none
           /\ prods.list = products_main
           /\ file.written
           /\ Len(file.rows) = 1 + Len(products_main)
           /\ file.rows[1] = Header
           /\ DataRows = products_main

\* C7 witness: a finished fault-free run in which the next-page control of
\* the last category was never interactable (the browser is still on the
\* first page) and at least four records were collected.
C7_Witness ==
    /\ pc = "done"
    /\ ~faultSeen
    /\ sitePage = 1
    /\ loc = Len(CATEGORIES)
    /\ Len(products_main) >= 4
    /\ Len(file.rows) = 1 + Len(products_main)

\* C8: an exception other than ElementNotInteractableException raised by
\* the click on the next-page control is not absorbed by go_next_page: it
\* reaches the wrapper of parse_products.
C8_OtherFaultsNotAbsorbed ==
    [][(pc = "gnp_finally" /\ exc # "none") => (pc' = "pp_raise" /\ exc' = exc)]_vars

\* C9: once save_to_csv has run, after a complete extraction or one cut
\* short by a fault, the data rows of products.csv are exactly the records
\* accumulated in the ResultSet.
C9_OutputHoldsAccumulated ==
    pc = "done" => (file.written /\ DataRows = products_main)

\* The origin <<category, pass, card>> of the records is strictly increasing
\* in lexicographic order, and each record is the one of the card at that
\* position of its page.
LexLess(a, b) ==
    \/ a[1] < b[1]
    \/ a[1] = b[1] /\ a[2] < b[2]
    \/ a[1] = b[1] /\ a[2] = b[2] /\ a[3] < b[3]

OrderedByOrigin ==
    /\ Len(origins) = Len(products_main)
    /\ \A i \in 1..Len(products_main) : products_main[i][1][3] = origins[i][3]
    /\ \A i, j \in 1..Len(origins) : i < j => LexLess(origins[i], origins[j])

\* C10: every step leaves the ResultSet a prefix-extension of its previous
\* value, and its records are ordered by category, then page pass, then card.
C10_AppendOnlyOrdered ==
    [][IsPrefixOf(products_main, products_main') /\ OrderedByOrigin']_vars

\* C10 witness: the ResultSet holds records of both categories and of two
\* passes of the first one.
C10_Witness ==
    /\ Len(products_main) >= 3
    /\ \E i, j, k \in 1..Len(origins) :
         /\ origins[i][1] = 1 /\ origins[i][2] = 1
         /\ origins[j][1] = 1 /\ origins[j][2] = 2
         /\ origins[k][1] = 2

\* The two outcomes of wait.until the resolver is specified for: the element
\* is found, or the wait bound elapses.
WaitFoundOrTimedOut == uWait \in {Ret(Elem), Raise("TimeoutException")}

\* C11 (as stated): for a recognised method tag the caller of find_element
\* either receives the live element or a raised wait-timeout error.
C11_ElementOrTimeoutRaised ==
    (uResult # Pending /\ uMethod \in MethodTags /\ WaitFoundOrTimedOut)
        => (uResult = Ret(Elem) \/ uResult = Raise("TimeoutException"))

\* C11 (amended): for a recognised method tag the caller of find_element
\* either receives the live element, with nothing logged, or, when the wait
\* timed out, receives None after one error entry was logged; a wait-timeout
\* error never reaches the caller.
C11_ElementOrNone ==
    (uResult # Pending /\ uMethod \in MethodTags)
        => /\ uResult # Raise("TimeoutException")
           /\ uWait = Ret(Elem) => (uResult = Ret(Elem) /\ uErrs = 0)
           /\ uWait = Raise("TimeoutException") => (uResult = Ret(None) /\ uErrs = 1)

\* C11 witness: the clickability wait of the 'delivery' tag timed out and
\* the caller received None with one error entry logged.
C11_Witness ==
    /\ uMethod = "delivery"
    /\ uWait = Raise("TimeoutException")
    /\ uResult = Ret(None)
    /\ uErrs = 1

\* The header row the specification gives (transliterated like Header):
\* its sixth column is "Tsena so skidkoy", three words.
SpecifiedHeader ==
    << "Naimenovanie", "Url_tovara", "Url_izobrazheniya", "Kategoriya",
       "Polnaya tsena", "Tsena so skidkoy" >>

\* C12: after save_to_csv wrote a ResultSet, the first row of products.csv
\* is exactly the specified six-column header and the rows after it are the
\* records of the ResultSet in accumulation order, and nothing else.
C12_HeaderThenRecords ==
    (pc = "done" /\ ~prods.none)
        => /\ file.written
           /\ Len(file.rows) = 1 + Len(prods.list)
           /\ file.rows[1] = SpecifiedHeader
           /\ Tail(file.rows) = prods.list

\* A price text that is already clean: no whitespace at either end and no
\* currency sign.
IsClean(t) ==
    /\ t = <<>> \/ (t[1] # " " /\ t[Len(t)] # " ")
    /\ \A i \in 1..Len(t) : t[i] # "$"

AllSpaces(t) == \A i \in 1..Len(t) : t[i] = " "

\* C13 (as stated): normalising an already-clean price text returns it
\* unchanged.
C13_IdempotentOnClean ==
    (tKind = "price" /\ tOut.done /\ IsClean(tIn)) => tOut.text = tIn

\* C13 (amended): the normalisation trims the text and then removes its last
\* two characters whatever they are.  A clean price followed by a
\* two-character suffix ending in the currency sign, with any surrounding
\* whitespace, yields the clean price; an already-clean text of n characters
\* yields its first max(n - 2, 0) characters, so it is changed unless empty.
C13_DropsTwoAfterTrim ==
    (tKind = "price" /\ tOut.done)
        => /\ IsClean(tIn) =>
                /\ Len(tOut.text) = (IF Len(tIn) >= 2 THEN Len(tIn) - 2 ELSE 0)
                /\ IsPrefixOf(tOut.text, tIn)
                /\ tIn # <<>> => tOut.text # tIn
           /\ \A a, b \in 0..Len(tIn) :
                ( /\ a + b + 2 <= Len(tIn)
                  /\ AllSpaces(SubSeq(tIn, 1, a))
                  /\ AllSpaces(SubSeq(tIn, Len(tIn) - b + 1, Len(tIn)))
                  /\ tIn[Len(tIn) - b] = "$"
                  /\ IsClean(SubSeq(tIn, a + 1, Len(tIn) - b - 2)) )
                => tOut.text = SubSeq(tIn, a + 1, Len(tIn) - b - 2)

\* C13 witness: the already-clean text "ddd" was normalised to "d".
C13_Witness ==
    /\ tKind = "price"
    /\ tOut.done
    /\ tIn = <<"d", "d", "d">>
    /\ tOut.text = <<"d">>

\* The pattern  category: "<value>"  occurs in t at position i, its closing
\* double quote at j: the value is the non-empty, quote-free text between.
MatchAt(t, i, j) ==
    /\ i + 1 <= Len(t)
    /\ t[i] = "P"
    /\ t[i + 1] = "q"
    /\ j > i + 2
    /\ j <= Len(t)
    /\ t[j] = "q"
    /\ \A k \in (i + 2)..(j - 1) : t[k] # "q"

HasMatch(t) == \E i, j \in 1..Len(t) : MatchAt(t, i, j)

\* C14: for a card whose script content holds the pattern, the category
\* field of the record is the value of its first occurrence and no warning
\* is logged; for every content without it the field is the sentinel and
\* exactly one warning is logged; either way the six-field record is
\* completed and appended.
C14_CategoryField ==
    (tKind = "script" /\ tOut.done)
        => /\ \A i, j \in 1..Len(tIn) :
                ( /\ MatchAt(tIn, i, j)
                  /\ ~\E h, l \in 1..Len(tIn) : h < i /\ MatchAt(tIn, h, l) )
                => (tOut.rec[4] = SubSeq(tIn, i + 2, j - 1) /\ tOut.warn = 0)
           /\ ~HasMatch(tIn) => (tOut.rec[4] = NoCategory /\ tOut.warn = 1)
           /\ Len(tOut.rec) = NumFields
           /\ tOut.main = <<tOut.rec>>

\* C14 witness: the content  category: ""a  (an empty value) has no match:
\* the record was appended with the sentinel and one warning.
C14_Witness ==
    /\ tKind = "script"
    /\ tOut.done
    /\ tIn = <<"P", "q", "q", "a">>
    /\ tOut.rec[4] = NoCategory
    /\ tOut.warn = 1
    /\ tOut.main = <<tOut.rec>>

\* C15: an exception of a kind outside the transient set that is in flight
\* at any step, go_next_page included, is never dropped: the next step keeps
\* it in flight, and the run ends with it after an error entry was logged.
C15_UnexpectedNeverAbsorbed ==
    [][(exc # "none" /\ ~IsTransient(exc) /\ pc # "crashed")
          => (exc' = exc /\ pc' \in {"pp_raise", "crashed"}
              /\ (pc' = "crashed" => nErr' = nErr + 1))]_vars

\* The UI events of the address flow in the order of the state machine
\* Start -> ConsentDismissed -> DeliveryPanelOpen -> AddressTyped ->
\* AddressConfirmed (two confirm key events) -> Saved.
AddressFlow == <<"consent", "delivery", "typed", "enter", "enter", "save">>

\* C16 (as stated): in every execution the states of the address flow are
\* entered in order with none skipped.
C16_LinearNoneSkipped == IsPrefixOf(uiEvents, AddressFlow)

\* C16 (amended): the states are entered in order and none after
\* ConsentDismissed is skipped, but ConsentDismissed itself may be skipped:
\* the events performed are a prefix of the flow with or without the consent
\* click, and select_delivery_address returns the session only once Saved
\* was reached.
C16_LinearConsentOptional ==
    /\ IsPrefixOf(uiEvents, AddressFlow) \/ IsPrefixOf(uiEvents, Tail(AddressFlow))
    /\ (pc = "pp_enter" /\ browser = Driver)
         => (uiEvents = AddressFlow \/ uiEvents = Tail(AddressFlow))

\* C16 witness: select_delivery_address returned the session with Saved
\* reached although the consent control was never clicked.
C16_Witness ==
    /\ pc = "pp_enter"
    /\ browser = Driver
    /\ uiEvents = Tail(AddressFlow)

\* A completed record of the site's cards: name, product URL, absolute image
\* URL, category label or sentinel, full price, discounted price.
IsCompleteRecord(r) ==
    /\ Len(r) = 6
    /\ Len(r[1]) = 3
    /\ r[2] = "href"
    /\ r[3] = <<URL_MAIN, "/data-src">>
    /\ r[4] \in {<<"a">>, NoCategory}
    /\ r[5] = <<"d", "d">>
    /\ r[6] = <<"d">>

\* C17: in every reachable state each element of products_main is a
\* completed record of exactly six fields in the fixed order; a partially
\* filled record is never in the ResultSet.
C17_OnlyCompleteRecords ==
    \A i \in 1..Len(products_main) : IsCompleteRecord(products_main[i])

\* C17 witness: a fault interrupted a card's extraction with lst partially
\* filled while the ResultSet already held a record.
C17_Witness ==
    /\ pc = "pp_raise"
    /\ raisedAt = "pp_card"
    /\ Len(lst) = 4
    /\ Len(products_main) >= 1

HasDuplicate(main) == \E i, j \in 1..Len(main) : i < j /\ main[i] = main[j]

\* C18: the page loop makes exactly pages passes per category whatever
\* go_next_page met (when the code after the loops is reached, go_next_page
\* was called Len(CATEGORIES) * pages times); and when a pass after the first
\* finds the browser still on the first page of the listing, the cards of
\* that page are appended again, so the ResultSet holds a record twice.
C18_FixedPassesAndDuplicates ==
    /\ pc = "pp_close" => navAttempts = Len(CATEGORIES) * pages
    /\ pageIdx <= pages + 1
    /\ (pc \in {"pp_card", "gnp_try"} /\ pageIdx >= 2 /\ sitePage = 1 /\ cardIdx >= 2)
         => HasDuplicate(products_main)

\* C18 witness: the next-page control was missing (IndexError, discarded),
\* all passes were made and the ResultSet holds a duplicate.
C18_Witness ==
    /\ pc = "pp_close"
    /\ raisedAt = "gnp_try"
    /\ sitePage = 1
    /\ HasDuplicate(products_main)

\* C19: the run ends with an exception only when that exception is of a
\* kind outside the transient set; otherwise every stage is passed in order:
\* a stage given None yields None (its AttributeError or TypeError is
\* contained), and save_to_csv given None leaves the header row and no data.
C19_TransientNeverEndsRun ==
    /\ pc = "crashed" => (exc # "none" /\ ~IsTransient(exc))
    /\ (pc \in {"pp_enter", "pp_get", "pp_raise", "save", "done"}
          /\ ~sessionOpen /\ closeCount = 0)
         => browser = None
    /\ (pc \in {"save", "done"} /\ browser = None) => prods.none
    /\ (pc = "done" /\ prods.none) => (file.written /\ file.rows = <<Header>>)

\* C19 witness: create_webdriver failed with a transient fault, each later
\* stage was given None and contained its own fault (four error entries),
\* and products.csv holds the header row only.
C19_Witness ==
    /\ pc = "done"
    /\ ~sessionOpen
    /\ browser = None
    /\ closeCount = 0
    /\ nErr = 4
    /\ file.rows = <<Header>>

====
